---- MODULE Spec2Model ----
(***************************************************************************)
(* A model of emotioncf's collaborative-filtering classes (cf.py) and of   *)
(* the masking helper of utils.py.                                         *)
(*                                                                         *)
(* One model object is followed through its life: construction, train/test *)
(* masking, fit (with or without time-series dilation), predict and the    *)
(* four evaluation methods.  Ratings are floats in the code; here they are *)
(* exact rationals [n, d] with d = 0 standing for NaN, so that means, MSEs *)
(* and their comparisons are computed, not assumed.                        *)
(*                                                                         *)
(* The factors W, H of the NNMF classes start from random draws and are    *)
(* not computed: a fitted model holds the frame its factors predict, NaN   *)
(* in the cells where the arithmetic of the code gives NaN, the product of *)
(* the floors where the code leaves both factors at eps, and in every      *)
(* other cell a float that has no value here; a score computed from such   *)
(* floats has none either.  Each iteration of a training loop ends with    *)
(* residuals drawn from a small set, NaN and infinity where the arithmetic *)
(* of the code forces them, and with the smallest entry of the factors as  *)
(* NaN or the floor eps.  The control flow of the loops is the code's.     *)
(*                                                                         *)
(* Two pure computations are also applied on their own: the windowed mean  *)
(* _conv_ts_mean_overlap to one row of ratings, and the neighbour          *)
(* selection and weighted mean of one cell of KNN.predict.                 *)
(*                                                                         *)
(* The operations are spread over specifications, each following objects  *)
(* through some of them: Spec through fit without dilation, predict and    *)
(* the evaluation methods of the four classes, SpecFit through fit with    *)
(* and without dilation, SpecSplit through the masking methods,            *)
(* SpecDownsample through downsample, the others through one class or one  *)
(* computation with all its inputs.                                        *)
(*                                                                         *)
(* Not modelled: plotting, to_long_df, the long/wide reshaping helpers,    *)
(* nanpdist, the dataset download, the KNN metrics spearman, kendall and   *)
(* cosine, save_learning=False, target_type="hz" of downsample.            *)
(***************************************************************************)
EXTENDS Integers, Sequences, FiniteSets, TLC

VARIABLES
    kind,             \* the class of the object: Mean, KNN, NNMF_mult, NNMF_sgd
    data,             \* self.data, subjects x items, NaN for a missing rating
    columns,          \* self.data.columns, the labels of the items
    train_mask,       \* self.train_mask, <<>> while the attribute is not set
    masked_data,      \* self.masked_data, <<>> while the attribute is not set
    is_mask,          \* self.is_mask
    n_train_items,    \* self.n_train_items, <<>> for None, <<k>> for the int k
    is_mask_dilated,  \* self.is_mask_dilated
    dilated_mask,     \* self.dilated_mask, <<>> for None
    is_fit,           \* self.is_fit
    is_predict,       \* self.is_predict
    mean,             \* Mean: self.mean, <<>> for None
    mean_index,       \* Mean: self.mean.index, the labels of its entries, <<>> for None
    fitted,           \* NNMF_*: the frame the fitted factors predict, <<>> before fit
    subject_similarity, \* KNN: self.subject_similarity, <<>> for None
    error_history,    \* NNMF_*: self.error_history, <<>> while the attribute is not set
    converged,        \* NNMF_sgd: self.converged, <<>> while the attribute is not set
    _n_iter,          \* NNMF_sgd: self._n_iter, <<>> while the attribute is not set
    global_bias,      \* NNMF_sgd: self.global_bias, <<>> while the attribute is not set
    predictions,      \* self.predictions, <<>> for None
    last              \* the last call made on the object and what it returned or raised

\* what fit learns, per class
params == <<mean, fitted, subject_similarity, error_history, converged, _n_iter,
            global_bias>>
mvars == <<kind, data, columns, mean_index, train_mask, masked_data, is_mask, n_train_items,
           is_mask_dilated, dilated_mask, is_fit, is_predict, params,
           predictions>>
vars == <<kind, data, columns, mean_index, train_mask, masked_data, is_mask, n_train_items,
          is_mask_dilated, dilated_mask, is_fit, is_predict, params,
          predictions, last>>

(***************************************************************************)
(* Bounds of the model.                                                    *)
(***************************************************************************)
MaxRating == 2    \* observed ratings are 1..MaxRating
MaxDilate == 2    \* dilate_ts_n_samples is None or in 1..MaxDilate
FracDen == 4      \* float training sizes are the multiples of 1/FracDen
MaxIter == 2      \* max_iterations and n_iterations are in 0..MaxIter

\* The shape of the rating matrix: two subjects (rows) by two items (columns).
Subjects == 1 .. 2
Items == 1 .. 2
NSubj == Cardinality(Subjects)
NItems == Cardinality(Items)
Kinds == {"Mean", "KNN", "NNMF_mult", "NNMF_sgd"}
Datasets == {"all", "train", "test"}
None == <<>>

(***************************************************************************)
(* Floats as exact rationals.  NaN is the value with denominator 0; every  *)
(* arithmetic operator propagates it as IEEE arithmetic does.              *)
(***************************************************************************)
NaN == [n |-> 0, d |-> 0]
isnan(x) == x.d = 0
\* A float the code computes from random draws (the entries of np.dot(W, H), the sums
\* of _predict_single) is finite but has no value here: AnyFloat stands for it, of no
\* known sign, equal to no float and compared with none, and what is computed from
\* one is again AnyFloat unless a NaN or a factor 0 decides the result.  A value with
\* a negative denominator is such a float.
AnyFloat == [n |-> 0, d |-> -1]
isany(x) == x.d < 0
Abs(i) == IF i < 0 THEN -i ELSE i

RECURSIVE GCD(_, _)
GCD(a, b) == IF b = 0 THEN a ELSE GCD(b, a % b)

\* n / d in lowest terms with a positive denominator; 0/0 is NaN
Rat(n, d) ==
    IF d = 0 THEN NaN
    ELSE LET g == GCD(Abs(n), Abs(d))
             s == IF d < 0 THEN -1 ELSE 1
         IN  [n |-> (s * n) \div g, d |-> (s * d) \div g]
R(i) == [n |-> i, d |-> 1]
Add(x, y) ==
    IF isnan(x) \/ isnan(y) THEN NaN
    ELSE IF isany(x) \/ isany(y) THEN AnyFloat
    ELSE Rat(x.n * y.d + y.n * x.d, x.d * y.d)
Sub(x, y) ==
    IF isnan(x) \/ isnan(y) THEN NaN
    ELSE IF isany(x) \/ isany(y) THEN AnyFloat
    ELSE Rat(x.n * y.d - y.n * x.d, x.d * y.d)
Mul(x, y) ==
    IF isnan(x) \/ isnan(y) THEN NaN
    ELSE IF isany(x) \/ isany(y) THEN (IF x = R(0) \/ y = R(0)
                                       THEN R(0) ELSE AnyFloat)
    ELSE Rat(x.n * y.n, x.d * y.d)
Div(x, y) ==
    IF isnan(x) \/ isnan(y) THEN NaN
    ELSE IF isany(y) THEN (IF x = R(0) THEN x ELSE AnyFloat)
    ELSE IF isany(x) THEN (IF y.n = 0 THEN NaN ELSE AnyFloat)
    ELSE Rat(x.n * y.d, x.d * y.n)
Leq(x, y) == ~isnan(x) /\ ~isnan(y) /\ ~isany(x) /\ ~isany(y) /\ x.n * y.d <= y.n * x.d
Sign(x) == IF x.n > 0 THEN 1 ELSE IF x.n < 0 THEN -1 ELSE 0

RECURSIVE SumSeq(_)
SumSeq(xs) == IF xs = <<>> THEN R(0) ELSE Add(Head(xs), SumSeq(Tail(xs)))
NotNan(x) == ~isnan(x)
\* np.nanmean of a 1-d array: the mean of its non-NaN entries, NaN when there is none
nanmean(xs) ==
    LET ys == SelectSeq(xs, NotNan)
    IN  Div(SumSeq(ys), R(Len(ys)))

(***************************************************************************)
(* scipy.stats.pearsonr raises ValueError on fewer than two points and     *)
(* returns NaN on a constant input; a correlation r is kept as its sign    *)
(* and its square, [sgn, sq], both exact.  The r of values that have none  *)
(* here is [sgn |-> 0, sq |-> AnyFloat].                                   *)
(***************************************************************************)
CorrNaN == [sgn |-> 0, sq |-> NaN]
SeqMean(xs) == Div(SumSeq(xs), R(Len(xs)))
Centered(xs) == LET m == SeqMean(xs) IN [k \in 1..Len(xs) |-> Sub(xs[k], m)]
Dot(xs, ys) == SumSeq([k \in 1..Len(xs) |-> Mul(xs[k], ys[k])])
IsConstant(xs) == \A k \in 1..Len(xs) : xs[k] = xs[1] /\ xs[k] # AnyFloat
pearsonr(x, y) ==
    IF Len(x) < 2 THEN [out |-> "ValueError", val |-> CorrNaN]
    ELSE IF IsConstant(x) \/ IsConstant(y) THEN [out |-> "ok", val |-> CorrNaN]
    ELSE LET xm == Centered(x)
             ym == Centered(y)
             cov == Dot(xm, ym)
         IN  [out |-> "ok",
              val |-> [sgn |-> Sign(cov),
                       sq |-> Div(Mul(cov, cov), Mul(Dot(xm, xm), Dot(ym, ym)))]]
\* r itself, for an r whose square is the square of a rational
ISqrt(n) == CHOOSE r \in 0..n : r * r = n
CorrValue(c) ==
    IF isnan(c.sq) THEN NaN
    ELSE IF isany(c.sq) THEN AnyFloat
    ELSE Mul(R(c.sgn), Rat(ISqrt(c.sq.n), ISqrt(c.sq.d)))

(***************************************************************************)
(* Matrices: M[s][i], subject s, item i.  Flat and BoolIndex are numpy's   *)
(* row-major .values.flatten() and .values[boolean matrix].                *)
(***************************************************************************)
NCells == NSubj * NItems
RowOf(k) == ((k - 1) \div NItems) + 1
ColOf(k) == ((k - 1) % NItems) + 1
Flat(M) == [k \in 1..NCells |-> M[RowOf(k)][ColOf(k)]]

RECURSIVE Pick(_, _, _)
Pick(xs, bs, k) ==
    IF k > Len(xs) THEN <<>>
    ELSE IF bs[k] THEN <<xs[k]>> \o Pick(xs, bs, k + 1)
    ELSE Pick(xs, bs, k + 1)
BoolIndex(M, B) == Pick(Flat(M), Flat(B), 1)
Not(B) == [s \in Subjects |-> [i \in Items |-> ~B[s][i]]]
notnull(M) == [s \in Subjects |-> [i \in Items |-> ~isnan(M[s][i])]]
\* DataFrame.__getitem__ with a boolean frame, df[mask]: NaN where mask is False
Where(M, B) == [s \in Subjects |-> [i \in Items |-> IF B[s][i] THEN M[s][i] ELSE NaN]]
Column(M, i) == [s \in Subjects |-> M[s][i]]
\* DataFrame.mean(skipna=True, axis=0): one mean per item
ColMeans(M) == [i \in Items |-> nanmean(Column(M, i))]
TrueCount(row) == Cardinality({i \in Items : row[i]})

RatingValues == {NaN} \cup {R(v) : v \in 1..MaxRating}
DataSet == [Subjects -> [Items -> RatingValues]]
MaskSet == [Subjects -> [Items -> BOOLEAN]]
AllFalse == [s \in Subjects |-> [i \in Items |-> FALSE]]
AllTrue == [s \in Subjects |-> [i \in Items |-> TRUE]]
HasNaN(M) == \E s \in Subjects, i \in Items : isnan(M[s][i])

(***************************************************************************)
(* The training size argument: a float num/FracDen, an int, or a value of  *)
(* another type.                                                           *)
(***************************************************************************)
SizeArgs ==
    {[t |-> "float", v |-> Rat(q, FracDen)] : q \in -1..(FracDen + 1)}
        \cup {[t |-> "int", v |-> R(k)] : k \in -1..(NItems + 1)}
        \cup {[t |-> "str", v |-> NaN]}

\* np.round of a non-negative float: to the nearest integer, a tie to the even one
RoundHalfEven(x) ==
    LET fl == x.n \div x.d
        twice == 2 * (x.n - fl * x.d)
    IN  IF twice < x.d THEN fl
        ELSE IF twice > x.d THEN fl + 1
        ELSE IF fl % 2 = 0 THEN fl ELSE fl + 1

\* cf.py 281-290 and utils.py 136-145: the count the argument stands for, or the
\* TypeError both raise
ResolveSize(a) ==
    IF a.t = "float" /\ Leq(a.v, R(1)) /\ ~Leq(a.v, R(0))
    THEN [ok |-> TRUE, k |-> RoundHalfEven(Mul(R(NItems), a.v))]
    ELSE IF a.t = "int" THEN [ok |-> TRUE, k |-> a.v.n]
    ELSE [ok |-> FALSE, k |-> 0]

\* np.random.choice(columns, replace=False, size=k) for every row: the masks it can draw
\* a draw that may repeat a column marks fewer than k cells
MasksWithReplacement(k) == {m \in MaskSet : \A s \in Subjects : TrueCount(m[s]) <= k /\ (k > 0 => TrueCount(m[s]) > 0)}
MasksWith(k) == {m \in MaskSet : \A s \in Subjects : TrueCount(m[s]) = k}

Call(op, arg, out, val) == [op |-> op, arg |-> arg, out |-> out, val |-> val]

(***************************************************************************)
(* BaseCF.__init__: the object after construction, with or without a mask. *)
(***************************************************************************)
Constructed(kinds, masks) ==
    /\ kind \in kinds
    /\ data \in DataSet
    /\ \/ /\ train_mask \in masks
          /\ masked_data = Where(data, train_mask)
          /\ is_mask = TRUE
       \/ /\ train_mask = None
          /\ masked_data = None
          /\ is_mask = FALSE
    /\ n_train_items = None
    /\ is_mask_dilated = FALSE
    /\ dilated_mask = None
    /\ is_fit = FALSE
    /\ is_predict = FALSE
    /\ mean = None
    /\ mean_index = None
    /\ fitted = None
    /\ subject_similarity = None
    /\ error_history = None
    /\ converged = None
    /\ _n_iter = None
    /\ global_bias = None
    /\ predictions = None
\* DataFrame(array): the columns of a frame built without labels are numbered from 0
RangeIndex == [j \in Items |-> [num |-> j - 1]]
InitWith(kinds, masks) ==
    /\ Constructed(kinds, masks)
    /\ columns = RangeIndex
    /\ last = Call("init", None, "ok", None)

(***************************************************************************)
(* BaseCF.split_train_test                                                 *)
(***************************************************************************)
\* np.random.choice raises on the first row: n_train_items and an all-False
\* train_mask are already assigned (cf.py 285, 292-293)
SplitFail(a, k) ==
    /\ n_train_items' = <<k>>
    /\ train_mask' = AllFalse
    /\ last' = Call("split_train_test", a, "ValueError", None)

split_train_test(a) ==
    LET r == ResolveSize(a)
    IN  IF ~r.ok
        THEN /\ last' = Call("split_train_test", a, "InvalidParameter", None)
             /\ UNCHANGED mvars
        ELSE IF r.k < 0 \/ r.k > NItems
        THEN /\ SplitFail(a, r.k)
             /\ UNCHANGED <<kind, columns, mean_index,
                            data, masked_data, is_mask, is_mask_dilated,
                            dilated_mask, is_fit, is_predict, params, predictions>>
        ELSE /\ n_train_items' = <<r.k>>
             /\ train_mask' \in MasksWith(r.k)
             /\ masked_data' = Where(data, train_mask')
             /\ is_mask' = TRUE
             /\ last' = Call("split_train_test", a, "ok", None)
             /\ UNCHANGED <<kind, columns, mean_index,
                            data, is_mask_dilated, dilated_mask, is_fit,
                            is_predict, params, predictions>>

(***************************************************************************)
(* utils.create_train_test_mask(data, n_train_items): a function of its    *)
(* arguments, called here on the object's data; the mask it returns is     *)
(* last.val.                                                               *)
(***************************************************************************)
create_train_test_mask(a) ==
    LET r == ResolveSize(a)
    IN  /\ UNCHANGED mvars
        /\ IF HasNaN(data)
           THEN last' = Call("create_train_test_mask", a, "NaNData", None)
           ELSE IF ~r.ok
           THEN last' = Call("create_train_test_mask", a, "InvalidParameter", None)
           ELSE IF r.k < 0 \/ r.k > NItems
           \* the permuted row has max(k, 0) + max(n - k, 0) # n entries: DataFrame raises
           THEN last' = Call("create_train_test_mask", a, "ValueError", None)
           ELSE \E m \in MasksWith(r.k) :
                    last' = Call("create_train_test_mask", a, "ok", m)

(***************************************************************************)
(* BaseCF._conv_ts_mean_overlap and BaseCF._dilate_ts_rating_samples       *)
(***************************************************************************)
Max(a, b) == IF a > b THEN a ELSE b
Min(a, b) == IF a < b THEN a ELSE b
bin_sub_rating(x) == [i \in 1..Len(x) |-> IF isnan(x[i]) THEN R(0) ELSE R(1)]
fillna0(x) == [i \in 1..Len(x) |-> IF isnan(x[i]) THEN R(0) ELSE x[i]]
\* a convolution that is centred on j, for an odd n
convolveCentred(a, n) ==
    [j \in 1..Len(a) |-> SumSeq(SubSeq(a, Max(1, j - (n \div 2)), Min(Len(a), j + (n \div 2))))]
\* np.convolve(a, np.ones(n))[:len(a)]: out[j] is the sum of a[j-n+1 .. j]
convolve(a, n) == [j \in 1..Len(a) |-> SumSeq(SubSeq(a, Max(1, j - n + 1), j))]
_conv_ts_mean_overlap(sub_rating, n_samples) ==
    LET bin_sub_rating_conv == convolve(bin_sub_rating(sub_rating), n_samples)
        sub_rating_conv == convolve(fillna0(sub_rating), n_samples)
    IN  [j \in 1..Len(sub_rating) |->
            IF bin_sub_rating_conv[j] = R(0) THEN NaN
            ELSE Div(sub_rating_conv[j], bin_sub_rating_conv[j])]
\* the masked_data that _dilate_ts_rating_samples stores (cf.py 574-579)
DilatedOf(D, n_samples) ==
    LET md == Where(D, train_mask)
    IN  [s \in Subjects |-> _conv_ts_mean_overlap(md[s], n_samples)]
Dilated(n_samples) == DilatedOf(data, n_samples)
\* the three assignments of _dilate_ts_rating_samples, once its guards passed
_dilate_ts_rating_samples(n_samples) ==
    /\ masked_data' = Dilated(n_samples)
    /\ dilated_mask' = notnull(masked_data')
    /\ is_mask_dilated' = TRUE

Dilations == {0} \cup (1..MaxDilate)   \* 0 stands for dilate_ts_n_samples=None

(***************************************************************************)
(* fit.  Mean.fit and KNN.fit are exact.  The two NNMF classes fit factor  *)
(* matrices that start from random draws and are updated in floating       *)
(* point: for them this specification keeps the control flow of fit (its   *)
(* guards, its dilation side effects, its training loop and its flags),    *)
(* draws the residual each iteration computes from a small set of values   *)
(* and stands for the fitted factors by the frame they predict: NaN where  *)
(* a factor of the cell is NaN, the product of the floors where both       *)
(* factors of the cell are at the floor eps, AnyFloat elsewhere.           *)
(***************************************************************************)
\* a call that never returns leaves the caller nothing to do next
Returned == last.out # "NoReturn"

MeanOfFit(dil) ==
    IF is_mask
    THEN IF dil # 0
         THEN ColMeans(Where(masked_data', dilated_mask'))
         ELSE ColMeans(Where(masked_data, train_mask))
    ELSE ColMeans(data)

FitMean(dil) ==
    /\ kind = "Mean" /\ Returned
    /\ IF is_mask /\ dil # 0
       THEN _dilate_ts_rating_samples(dil)
       ELSE UNCHANGED <<masked_data, dilated_mask, is_mask_dilated>>
    /\ mean' = MeanOfFit(dil)
    \* DataFrame.mean(axis=0) is a Series indexed by the labels of the columns
    /\ mean_index' = columns
    /\ is_fit' = TRUE
    /\ last' = Call("fit", [dil |-> dil], "ok", None)
    /\ UNCHANGED <<kind, columns, data, train_mask, is_mask, n_train_items, is_predict,
                   fitted, subject_similarity, error_history, converged, _n_iter,
                   global_bias, predictions>>

(***************************************************************************)
(* KNN.fit.  Of the metrics, "pearson" (DataFrame.corr, which gives NaN    *)
(* for a pair of rows with fewer than two common items or no variance) and *)
(* "correlation" (scipy.stats.pearsonr on the common items of each pair)   *)
(* are modelled, and a name outside the supported list.                    *)
(***************************************************************************)
Metrics == {"pearson", "correlation", "euclid"}

\* the frame the similarities are computed from (cf.py 650-657)
KnnData(dil) ==
    IF dil # 0 THEN Where(masked_data', dilated_mask')
    ELSE IF is_mask THEN Where(data, train_mask)
    ELSE data
\* pearsonr over the items both rows have a value for
PairCorr(x, y) ==
    LET both == [i \in Items |-> ~isnan(x[i]) /\ ~isnan(y[i])]
    IN  pearsonr(Pick(x, both, 1), Pick(y, both, 1))
\* data.T.corr(method="pearson")
pandas_corr(D) ==
    [s \in Subjects |-> [t \in Subjects |->
        LET c == PairCorr(D[s], D[t])
        IN  IF c.out = "ok" THEN CorrValue(c.val) ELSE NaN]]
\* the double loop of metric="correlation" (cf.py 669-675)
scipy_corr(D) ==
    IF \E s, t \in Subjects : PairCorr(D[s], D[t]).out # "ok"
    THEN [out |-> "ValueError", sim |-> None]
    ELSE [out |-> "ok",
          sim |-> [s \in Subjects |-> [t \in Subjects |->
                     CorrValue(PairCorr(D[s], D[t]).val)]]]
\* cf.py 662-685: the similarity matrix, or the error the metric ends in
Similarity(metric, D) ==
    IF metric = "pearson" THEN [out |-> "ok", sim |-> pandas_corr(D)]
    ELSE IF metric = "correlation" THEN scipy_corr(D)
    ELSE [out |-> "InvalidParameter", sim |-> None]

\* KNN.fit: dilation runs before the metric name is looked at (cf.py 655-685)
FitKNN(dil, metric) ==
    /\ kind = "KNN" /\ Returned
    /\ IF dil # 0 /\ ~is_mask
       THEN /\ last' = Call("fit", [dil |-> dil, metric |-> metric], "PrecursorMissing", None)
            /\ UNCHANGED mvars
       ELSE /\ IF dil # 0
               THEN _dilate_ts_rating_samples(dil)
               ELSE UNCHANGED <<masked_data, dilated_mask, is_mask_dilated>>
            /\ LET r == Similarity(metric, KnnData(dil))
               IN  /\ subject_similarity' = IF r.out = "ok" THEN r.sim ELSE subject_similarity
                   /\ is_fit' = IF r.out = "ok" THEN TRUE ELSE is_fit
                   /\ last' = Call("fit", [dil |-> dil, metric |-> metric], r.out, None)
            /\ UNCHANGED <<kind, columns, mean_index,
                           data, train_mask, is_mask, n_train_items,
                           is_predict, mean, fitted, error_history, converged,
                           _n_iter, global_bias, predictions>>

(***************************************************************************)
(* The training loops.  A residual is a norm: 0 or more, or NaN.           *)
(***************************************************************************)
Residuals == {R(0), R(1)}
Limits == {R(0), Rat(1, 2)}
NegInf == [n |-> -1, d |-> 0]     \* -np.inf, the residuals before the first iteration
PosInf == [n |-> 1, d |-> 0]      \* a positive norm divided by 0
\* x < y of floats, y finite: false as soon as one side is NaN
Lt(x, y) ==
    IF x = NegInf THEN ~isnan(y)
    ELSE IF x = PosInf THEN FALSE
    ELSE ~isnan(x) /\ ~isnan(y) /\ x.n * y.d < y.n * x.d
AbsR(x) == IF x.d = 0 THEN [n |-> Abs(x.n), d |-> 0] ELSE Rat(Abs(x.n), x.d)

\* cf.py 790-802: the 0/1 weights of NNMF_mult's update and the matrix it factorizes
MultMask(dil) ==
    IF ~is_mask THEN AllTrue
    ELSE IF dil # 0 THEN dilated_mask' ELSE train_mask
\* masked_X: the training ratings, 0 where there is none (cf.py 791-799); without a
\* mask the data as they are (cf.py 801)
MaskedXOf(D, dil) ==
    IF ~is_mask THEN D
    ELSE [s \in Subjects |-> [i \in Items |->
            LET v == IF dil # 0 THEN masked_data'[s][i]
                     ELSE IF train_mask[s][i] THEN D[s][i] ELSE NaN
            IN  IF isnan(v) THEN R(0) ELSE v]]
MaskedX(dil) == MaskedXOf(data, dil)
\* cf.py 786: the square of avg, the scale of the random W and H fit starts from;
\* n_factors is n_items
AvgSq(D) == Div(nanmean(Flat(D)), R(NItems))
MultNaN(dil) ==
    \* avg is NaN without a rating, and W = H = 0 when every rating is 0 (cf.py 786-788)
    \/ isnan(AvgSq(data)) \/ AvgSq(data) = R(0)
    \* without a mask the missing ratings stay NaN in masked_X (cf.py 801)
    \/ ~is_mask /\ HasNaN(data)
    \* a row or a column without weight makes its update 0/0 (cf.py 819-828)
    \/ \E s \in Subjects : \A i \in Items : ~MultMask(dil)[s][i]
    \/ \E i \in Items : \A s \in Subjects : ~MultMask(dil)[s][i]
\* a NaN in W or H is multiplied into every entry, np.maximum keeps it, and every
\* residual is NaN.  Otherwise W and H are at least eps, and current_resid is a positive
\* norm divided by masked_X.max() (cf.py 840), which is 0 when no training rating
\* is above 0.
\* min_factor stands for the smallest entry of W and H after the iteration: NaN, or
\* eps for a value that np.maximum(., eps) left at eps or above (cf.py 776, 823, 829).
Eps == Rat(1, 100000)
MultResiduals(dil) ==
    IF MultNaN(dil) THEN {[current_resid |-> NaN, fit_residual |-> NaN, min_factor |-> NaN]}
    ELSE IF \A s \in Subjects, i \in Items : MaskedX(dil)[s][i] = R(0)
    THEN [current_resid : {PosInf}, fit_residual : Residuals, min_factor : {Eps}]
    ELSE [current_resid : Residuals, fit_residual : Residuals, min_factor : {Eps}]

MultArgs == [max_iterations : 0..MaxIter, error_limit : Limits, fit_error_limit : Limits]
SgdArgs == [n_iterations : 0..MaxIter, tol : Limits]

\* cf.py 806-848: the runs of the while loop from the state (ctr, current_resid,
\* fit_residual); trace holds what every iteration executed ended with.  A loop
\* still running after MaxIter + 1 iterations is followed no further.
RECURSIVE MultLoop(_, _, _, _, _, _)
MultLoop(ctr, current_resid, fit_residual, a, trace, residuals) ==
    IF \/ ctr <= a.max_iterations
       \/ Lt(current_resid, a.error_limit)
       \/ Lt(fit_residual, a.fit_error_limit)
    THEN IF ctr > MaxIter + 1
         THEN {[returned |-> FALSE, trace |-> trace]}
         ELSE UNION {MultLoop(ctr + 1, r.current_resid, r.fit_residual, a,
                              Append(trace, r), residuals) : r \in residuals}
    ELSE {[returned |-> TRUE, trace |-> trace]}

\* the cells of np.dot(W, H) that are NaN after n iterations (cf.py 819-829): a NaN of
\* avg or of masked_X and a row without weight put NaN into a row of W, from there
\* into every entry of H; a column without weight puts NaN into its column of H, and
\* the next update of W spreads it to every entry
MultNaNCells(dil, n) ==
    LET everywhere ==
            \/ isnan(AvgSq(data)) \/ AvgSq(data) = R(0)
            \/ ~is_mask /\ HasNaN(data)
            \/ \E s \in Subjects : \A i \in Items : ~MultMask(dil)[s][i]
            \/ n >= 2 /\ \E i \in Items : \A s \in Subjects : ~MultMask(dil)[s][i]
    IN  [s \in Subjects |-> [i \in Items |->
            everywhere \/ \A t \in Subjects : ~MultMask(dil)[t][i]]]

\* np.dot(W, H) after n iterations (cf.py 819-829, 863).  A row of masked_X that is 0
\* throughout makes the update of its row of W 0, which np.maximum lifts to eps, and
\* so a column does with its column of H: a cell of such a row and such a column is
\* n_factors * eps * eps.  Every other cell that is not NaN is a sum of products of
\* the random draws W and H start from.
\* FloorProduct is n_factors * eps * eps, a fraction beyond the integers of TLC: one
\* float, equal to itself and greater than 0, that enters arithmetic as AnyFloat does.
FloorProduct == [n |-> NItems, d |-> -1]
MultPrediction(dil, n) ==
    [s \in Subjects |-> [i \in Items |->
        IF MultNaNCells(dil, n)[s][i] THEN NaN
        ELSE IF /\ \A j \in Items : MaskedX(dil)[s][j] = R(0)
                /\ \A t \in Subjects : MaskedX(dil)[t][i] = R(0)
        THEN FloorProduct
        ELSE AnyFloat]]

\* NNMF_mult.fit: dilation only inside `if self.is_mask` (cf.py 790-802).  masked_X of
\* the dilated branch is the array of self.masked_data (DataFrame.values of a frame of
\* floats), so setting its NaN to 0 (cf.py 799) sets them to 0 in self.masked_data;
\* dilated_mask was computed before.
FitMult(dil, a) ==
    /\ kind = "NNMF_mult" /\ Returned
    /\ IF is_mask /\ dil # 0
       THEN /\ masked_data' = [s \in Subjects |-> fillna0(Dilated(dil)[s])]
            /\ dilated_mask' = notnull(Dilated(dil))
            /\ is_mask_dilated' = TRUE
       ELSE UNCHANGED <<masked_data, dilated_mask, is_mask_dilated>>
    /\ \E run \in MultLoop(1, NegInf, NegInf, a, <<>>, MultResiduals(dil)) :
         /\ fitted' = MultPrediction(dil, Len(run.trace))
         /\ error_history' = [k \in 1..Len(run.trace) |-> run.trace[k].current_resid]
         /\ is_fit' = IF run.returned THEN TRUE ELSE is_fit
         /\ last' = Call("fit", [dil |-> dil, max_iterations |-> a.max_iterations,
                                 error_limit |-> a.error_limit,
                                 fit_error_limit |-> a.fit_error_limit],
                         IF run.returned THEN "ok" ELSE "NoReturn",
                         [trace |-> run.trace, avg_sq |-> AvgSq(data),
                          masked_X |-> MaskedX(dil), mask |-> MultMask(dil)])
    /\ UNCHANGED <<kind, columns, mean_index,
                   data, train_mask, is_mask, n_train_items, is_predict,
                   mean, subject_similarity, converged, _n_iter, global_bias,
                   predictions>>

\* cf.py 928-940: the cells NNMF_sgd trains on, and the ratings it reads there
SgdCells ==
    IF is_mask THEN IF is_mask_dilated' THEN dilated_mask' ELSE train_mask
    ELSE notnull(data)
SgdData == IF is_mask THEN Where(masked_data', SgdCells) ELSE data
NoSamples == \A s \in Subjects, i \in Items : ~SgdCells[s][i]
\* cf.py 932, 936: DataFrame.mean().mean(), the mean of the item means; cf.py 940: the
\* mean of the observed values
SgdGlobalBias == IF is_mask THEN nanmean(ColMeans(SgdData)) ELSE nanmean(Flat(data))
\* cf.py 951-952: the biases training starts from
ZeroBiases == [user_bias |-> [s \in Subjects |-> R(0)], item_bias |-> [i \in Items |-> R(0)]]
\* what the epochs read of the training frame: the cells an epoch visits in the
\* shuffled order of cf.py 978-979, those of them whose rating is NaN, and whether
\* max_norm (cf.py 962) is 0, no rating being above 0
SgdTraining ==
    [samples |-> {c \in Subjects \X Items : SgdCells[c[1]][c[2]]},
     missing |-> {c \in Subjects \X Items : SgdCells[c[1]][c[2]] /\ isnan(SgdData[c[1]][c[2]])},
     max_norm_0 |-> \A s \in Subjects, i \in Items :
                       isnan(SgdData[s][i]) \/ SgdData[s][i] = R(0)]
\* cf.py 981-1001, one visit of the cell c: the error e is NaN when the rating of the
\* cell is NaN or when the bias or the vector of its subject or of its item is, and a
\* NaN error makes the biases and the vectors of both NaN.  st holds the subjects
\* and the items whose parameters are NaN, and whether the last error was NaN.
SgdVisit(st, c, tr) ==
    IF c \in tr.missing \/ c[1] \in st.users \/ c[2] \in st.items
    THEN [users |-> st.users \cup {c[1]}, items |-> st.items \cup {c[2]}, e |-> TRUE]
    ELSE [st EXCEPT !.e = FALSE]
\* what an epoch can leave, over the orders np.random.shuffle can produce: front
\* holds what the visits made so far left, each with the cells still to visit
RECURSIVE SgdEpoch(_, _)
SgdEpoch(front, tr) ==
    IF \A x \in front : x.todo = {} THEN {x.st : x \in front}
    ELSE SgdEpoch(UNION {{[st |-> SgdVisit(x.st, c, tr), todo |-> x.todo \ {c}] :
                             c \in x.todo} : x \in front}, tr)
\* the normalized error an epoch ends with (cf.py 1003), eNaN telling whether its last
\* error is NaN
SgdErrors(eNaN, tr) ==
    IF eNaN THEN {NaN}
    ELSE IF tr.max_norm_0 THEN {PosInf, NaN}
    ELSE Residuals

\* cf.py 959-1010: the runs of the for loop after `done` epochs, ctr being the loop
\* variable (1 before the loop), last_e the 0 of line 960 and st what the epochs
\* before left
RECURSIVE SgdLoop(_, _, _, _, _, _)
SgdLoop(ctr, done, a, hist, st, tr) ==
    IF done + 1 > a.n_iterations
    THEN {[_n_iter |-> ctr, converged |-> FALSE, error_history |-> hist, nan |-> st]}
    ELSE UNION {UNION {LET delta == AbsR(Sub(AbsR(norm_e), AbsR(R(0))))
                       IN  IF Lt(delta, a.tol)
                           THEN {[_n_iter |-> done + 1, converged |-> TRUE,
                                  error_history |-> Append(hist, norm_e), nan |-> o]}
                           ELSE SgdLoop(done + 1, done + 1, a, Append(hist, norm_e), o, tr) :
                           norm_e \in SgdErrors(o.e, tr)} :
                    o \in SgdEpoch({[st |-> st, todo |-> tr.samples]}, tr)}
\* cf.py 943-952: no parameter is NaN before the first epoch
NoNaN == [users |-> {}, items |-> {}, e |-> FALSE]
\* cf.py 1075-1079: global_bias + user_bias[u] + item_bias[i] + the product of the
\* vectors of u and i, for every cell: NaN when the global bias or a parameter of the
\* subject or of the item is NaN, and a sum with random draws otherwise
SgdPrediction(gb, st) ==
    [s \in Subjects |-> [i \in Items |->
        IF isnan(gb) \/ s \in st.users \/ i \in st.items THEN NaN ELSE AnyFloat]]

\* NNMF_sgd.fit: dilation first, whatever is_mask is (cf.py 925-926)
FitSgd(dil, a) ==
    LET arg == [dil |-> dil, n_iterations |-> a.n_iterations, tol |-> a.tol]
    IN
    /\ kind = "NNMF_sgd" /\ Returned
    /\ IF dil # 0 /\ ~is_mask
       THEN /\ last' = Call("fit", arg, "PrecursorMissing", None)
            /\ UNCHANGED mvars
       ELSE /\ IF dil # 0
               THEN _dilate_ts_rating_samples(dil)
               ELSE UNCHANGED <<masked_data, dilated_mask, is_mask_dilated>>
            /\ IF ~is_mask /\ NoSamples
               \* zip(*np.argwhere(...)) of no cell has nothing to unpack (cf.py 939)
               THEN /\ last' = Call("fit", arg, "ValueError", None)
                    /\ UNCHANGED <<fitted, error_history, converged, _n_iter, is_fit,
                                   global_bias>>
               ELSE IF NoSamples /\ a.n_iterations >= 1
               \* no observation assigns e before line 1003 reads it
               THEN /\ fitted' = SgdPrediction(SgdGlobalBias, NoNaN)
                    /\ global_bias' = SgdGlobalBias
                    /\ error_history' = <<>>
                    /\ last' = Call("fit", arg, "UnboundLocalError", ZeroBiases)
                    /\ UNCHANGED <<converged, _n_iter, is_fit>>
               ELSE \E run \in SgdLoop(1, 0, a, <<>>, NoNaN, SgdTraining) :
                        /\ fitted' = SgdPrediction(SgdGlobalBias, run.nan)
                        /\ global_bias' = SgdGlobalBias
                        /\ error_history' = run.error_history
                        /\ converged' = <<run.converged>>
                        /\ _n_iter' = <<run._n_iter>>
                        /\ is_fit' = TRUE
                        /\ last' = Call("fit", arg, "ok", ZeroBiases)
            /\ UNCHANGED <<kind, columns, mean_index,
                           data, train_mask, is_mask, n_train_items,
                           is_predict, mean, subject_similarity, predictions>>

\* fit as the lifecycle exercises it: the NNMF classes train for one iteration with
\* tolerances of 0.  No fit assigns is_predict or predictions (cf.py 612, 687, 849, 1014).
OneIterationMult == {a \in MultArgs : a.max_iterations = 1 /\ a.error_limit = R(0)
                                        /\ a.fit_error_limit = R(0)}
OneIterationSgd == {a \in SgdArgs : a.n_iterations = 1 /\ a.tol = R(0)}
Fit ==
    \/ \E dil \in Dilations : FitMean(dil)
    \/ \E dil \in Dilations, metric \in Metrics : FitKNN(dil, metric)
    \/ \E dil \in Dilations, a \in OneIterationMult : FitMult(dil, a)
    \/ \E dil \in Dilations, a \in OneIterationSgd : FitSgd(dil, a)
\* fit called without dilate_ts_n_samples, its default
FitUndilated ==
    \/ FitMean(0)
    \/ \E metric \in Metrics : FitKNN(0, metric)
    \/ \E a \in OneIterationMult : FitMult(0, a)
    \/ \E a \in OneIterationSgd : FitSgd(0, a)

(***************************************************************************)
(* predict                                                                 *)
(***************************************************************************)
Broadcast(row) == [s \in Subjects |-> row]
Const(v) == [s \in Subjects |-> [i \in Items |-> v]]

\* the `if not self.is_fit: raise` of Mean, KNN and NNMF_mult (cf.py 623, 700, 859);
\* NNMF_sgd.predict has no such test (cf.py 1061-1073): it needs the vectors and the
\* biases fit assigns at cf.py 943-952, which a fit that raises later leaves behind
GuardsFit(k) == k \in {"Mean", "KNN", "NNMF_mult"}

\* cf.py 626-628: every row of a copy of self.data is assigned self.mean, a Series,
\* which .loc aligns to the columns by label: a column gets the entry of the mean that
\* carries its label, NaN when none does
PredictionOf ==
    IF kind = "Mean"
    THEN Broadcast([j \in DOMAIN columns |->
             IF \E p \in DOMAIN mean_index : mean_index[p] = columns[j]
             THEN mean[CHOOSE p \in DOMAIN mean_index : mean_index[p] = columns[j]]
             ELSE NaN])
    ELSE fitted

\* KNN.predict(k), k being <<>> for None and <<n>> for the int n
\* the orders a set of labels can be laid out in
Orders(labels) ==
    {o \in [1..Cardinality(labels) -> labels] :
        \A a, b \in 1..Cardinality(labels) : o[a] = o[b] => a = b}
\* Series.sort_values(ascending=False) of the entries of sim at `labels`: the label
\* orders it can return, values falling, the NaN entries last (na_position="last"),
\* equal values in any order (quicksort is not stable).
\* (A sort that puts the NaN entries first, na_position="first".)
sort_valuesNaNFirst(sim, labels) ==
    {o \in Orders(labels) :
        \A a, b \in 1..Cardinality(labels) :
            a < b => \/ isnan(sim[o[a]])
                     \/ ~isnan(sim[o[b]]) /\ Leq(sim[o[b]], sim[o[a]])}
sort_values(sim, labels) ==
    {o \in Orders(labels) :
        \A a, b \in 1..Cardinality(labels) :
            a < b => \/ isnan(sim[o[b]])
                     \/ ~isnan(sim[o[a]]) /\ Leq(sim[o[b]], sim[o[a]])}
\* cf.py 712-724, sim being the row self.subject_similarity.loc[row[0]] and s the label
\* row[0]: .drop(row[0]), .sort_values(ascending=False), [0:k] when k is not None, then
\* the NaN entries removed.  The label sequences top_subjects can be.
TopOf(sim, s, k) ==
    {LET first == IF k = None THEN o ELSE SubSeq(o, 1, Min(k[1], Len(o)))
         notnull_(t) == ~isnan(sim[t])
     IN  SelectSeq(first, notnull_) : o \in sort_values(sim, (DOMAIN sim) \ {s})}
top_subjects(s, k) == TopOf(subject_similarity[s], s, k)
\* cf.py 726-728: np.dot(top_subjects, self.data.loc[top_subjects.index, col].T) /
\* len(top_subjects), ratings being the column of self.data
DotOverLen(sim, ratings, top) ==
    Div(Dot([j \in 1..Len(top) |-> sim[top[j]]], [j \in 1..Len(top) |-> ratings[top[j]]]),
        R(Len(top)))
KnnRating(s, i, top) == DotOverLen(subject_similarity[s], Column(data, i), top)
KnnPredictions(k) ==
    {[s \in Subjects |-> [i \in Items |-> KnnRating(s, i, nb[s])]] :
        nb \in {f \in [Subjects -> UNION {top_subjects(s, k) : s \in Subjects}] :
                   \A s \in Subjects : f[s] \in top_subjects(s, k)}}

Predict ==
    \E k \in {None} \cup {<<n>> : n \in 0..NSubj} :
    /\ Returned
    /\ kind = "KNN" \/ k = None
    /\ IF GuardsFit(kind) /\ ~is_fit
       THEN /\ last' = Call("predict", k, "NotFitted", None)
            /\ UNCHANGED mvars
       ELSE IF kind = "NNMF_sgd" /\ fitted = None
       \* NNMF_sgd: self.predictions = self.data.copy(), then self.user_vecs is missing
       THEN /\ predictions' = data
            /\ last' = Call("predict", k, "AttributeError", None)
            /\ UNCHANGED <<kind, columns, mean_index,
                           data, train_mask, masked_data, is_mask, n_train_items,
                           is_mask_dilated, dilated_mask, is_fit, is_predict, params>>
       ELSE /\ predictions' \in IF kind = "KNN" THEN KnnPredictions(k) ELSE {PredictionOf}
            /\ is_predict' = TRUE
            /\ last' = Call("predict", k, "ok", None)
            /\ UNCHANGED <<kind, columns, mean_index,
                           data, train_mask, masked_data, is_mask, n_train_items,
                           is_mask_dilated, dilated_mask, is_fit, params>>

(***************************************************************************)
(* Evaluation                                                              *)
(***************************************************************************)
SqErr(pred, actual) ==
    [k \in 1..Len(actual) |-> LET e == Sub(pred[k], actual[k]) IN Mul(e, e)]
BothValid(actual, pred) == [k \in 1..Len(actual) |-> ~isnan(actual[k]) /\ ~isnan(pred[k])]

\* the two tests every evaluation method starts with (cf.py 69-72, 88-92, 111-114, 187-190)
LifecyclePredictFirst ==
    IF ~is_predict THEN "NotPredicted"
    ELSE IF ~is_fit THEN "NotFitted"
    ELSE "ok"
Lifecycle ==
    IF ~is_fit THEN "NotFitted"
    ELSE IF ~is_predict THEN "NotPredicted"
    ELSE "ok"

\* the cells a selector stands for in _retrieve_predictions and the frame the actual
\* values are read from (cf.py 500-523)
TrainCells == train_mask
AllCells ==
    IF is_mask_dilated
    THEN [m |-> dilated_mask, src |-> masked_data]
    ELSE [m |-> train_mask, src |-> masked_data]

\* np.all(np.isnan(actual)), true of an empty array
NoTestData(actual) == \A k \in 1..Len(actual) : isnan(actual[k])

RetrieveAll ==
    IF is_mask
    THEN [out |-> "ok",
          actual |-> BoolIndex(AllCells.src, AllCells.m),
          predicted |-> BoolIndex(predictions, AllCells.m)]
    ELSE [out |-> "ok", actual |-> Flat(data), predicted |-> Flat(predictions)]
RetrieveTrain ==
    [out |-> "ok",
     actual |-> BoolIndex(masked_data, TrainCells),
     predicted |-> BoolIndex(predictions, TrainCells)]
\* a version that reads the test cells from the masked (and dilated) frame
RetrieveTestMasked ==
    LET actual == BoolIndex(masked_data, Not(train_mask))
    IN  [out |-> IF NoTestData(actual) THEN "NoTestData" ELSE "ok",
         actual |-> actual,
         predicted |-> BoolIndex(predictions, Not(train_mask))]
RetrieveTest ==
    LET actual == BoolIndex(data, Not(train_mask))
    IN  [out |-> IF NoTestData(actual) THEN "NoTestData" ELSE "ok",
         actual |-> actual,
         predicted |-> BoolIndex(predictions, Not(train_mask))]

\* a version whose last `else` falls back to the whole data instead of raising
_retrieve_predictionsNoRaise(dataset) ==
    IF dataset = "all" \/ ~is_mask THEN RetrieveAll
    ELSE IF dataset = "train" THEN RetrieveTrain
    ELSE RetrieveTest
_retrieve_predictions(dataset) ==
    IF dataset = "all" THEN RetrieveAll
    ELSE IF is_mask
    THEN IF dataset = "train" THEN RetrieveTrain ELSE RetrieveTest
    ELSE [out |-> "PrecursorMissing", actual |-> <<>>, predicted |-> <<>>]

get_mse(dataset) ==
    IF Lifecycle # "ok" THEN [out |-> Lifecycle, val |-> None]
    ELSE LET r == _retrieve_predictions(dataset)
         IN  IF r.out # "ok" THEN [out |-> r.out, val |-> None]
             ELSE [out |-> "ok", val |-> nanmean(SqErr(r.predicted, r.actual))]

get_corr(dataset) ==
    IF Lifecycle # "ok" THEN [out |-> Lifecycle, val |-> None]
    ELSE LET r == _retrieve_predictions(dataset)
         IN  IF r.out # "ok" THEN [out |-> r.out, val |-> None]
             ELSE LET ok == BothValid(r.actual, r.predicted)
                      c == pearsonr(Pick(r.actual, ok, 1), Pick(r.predicted, ok, 1))
                  IN  [out |-> c.out, val |-> IF c.out = "ok" THEN c.val ELSE None]

\* per subject: the frame the actual values come from and the cells of the row
\* (get_sub_mse cf.py 193-246, get_sub_corr cf.py 121-171)
SubFrame(dataset) ==
    IF dataset = "all" THEN [src |-> data, m |-> notnull(data)]
    ELSE IF dataset = "train"
    THEN [src |-> masked_data, m |-> IF is_mask_dilated THEN dilated_mask ELSE train_mask]
    ELSE [src |-> data, m |-> Not(train_mask)]
SubActual(dataset, s) == Pick(SubFrame(dataset).src[s], SubFrame(dataset).m[s], 1)
SubPred(dataset, s) == Pick(predictions[s], SubFrame(dataset).m[s], 1)
SubPrecursor(dataset) == dataset # "all" /\ ~is_mask

get_sub_mse(dataset) ==
    IF Lifecycle # "ok" THEN [out |-> Lifecycle, val |-> None]
    ELSE IF SubPrecursor(dataset) THEN [out |-> "PrecursorMissing", val |-> None]
    ELSE [out |-> "ok",
          val |-> [s \in Subjects |->
                     LET actual == SubActual(dataset, s)
                         pred == SubPred(dataset, s)
                         ok == BothValid(actual, pred)
                     IN  nanmean(SqErr(Pick(pred, ok, 1), Pick(actual, ok, 1)))]]

get_sub_corr(dataset) ==
    IF Lifecycle # "ok" THEN [out |-> Lifecycle, val |-> None]
    ELSE IF SubPrecursor(dataset) THEN [out |-> "PrecursorMissing", val |-> None]
    ELSE LET rs == [s \in Subjects |->
                      LET actual == SubActual(dataset, s)
                          pred == SubPred(dataset, s)
                          ok == BothValid(actual, pred)
                      IN  pearsonr(Pick(actual, ok, 1), Pick(pred, ok, 1))]
         IN  IF \E s \in Subjects : rs[s].out # "ok"
             THEN [out |-> "ValueError", val |-> None]
             ELSE [out |-> "ok", val |-> [s \in Subjects |-> rs[s].val]]

EvalOps == {"get_mse", "get_corr", "get_sub_mse", "get_sub_corr"}
Evaluate(op, dataset) ==
    IF op = "get_mse" THEN get_mse(dataset)
    ELSE IF op = "get_corr" THEN get_corr(dataset)
    ELSE IF op = "get_sub_mse" THEN get_sub_mse(dataset)
    ELSE get_sub_corr(dataset)

Eval ==
    \E op \in EvalOps, dataset \in Datasets :
        LET r == Evaluate(op, dataset)
        IN  /\ Returned
            /\ last' = Call(op, dataset, r.out, r.val)
            /\ UNCHANGED mvars

(***************************************************************************)
(* The k-fold split of a rating frame: the items, in a random order, are   *)
(* cut into n_folds contiguous groups; fold f is tested on the observed    *)
(* cells of group f and trained on the other observed cells.               *)
(***************************************************************************)
ItemOrders == {o \in [1..NItems -> Items] : \A i \in Items : \E j \in 1..NItems : o[j] = i}
\* c[f - 1] + 1 .. c[f] are the positions of group f; no group is empty
FoldCuts(n_folds) ==
    {c \in [0..n_folds -> 0..NItems] :
        c[0] = 0 /\ c[n_folds] = NItems /\ \A f \in 1..n_folds : c[f - 1] < c[f]}
FoldGroup(o, c, f) == {o[j] : j \in (c[f - 1] + 1)..c[f]}
FoldTest(D, g) == [s \in Subjects |-> [i \in Items |-> ~isnan(D[s][i]) /\ i \in g]]
FoldTrainLeaking(D, g) == notnull(D)
FoldTrain(D, g) == [s \in Subjects |-> [i \in Items |-> ~isnan(D[s][i]) /\ i \notin g]]
\* the (train, test) pairs of frames, one per fold
kfold_split_train_test(D, n_folds, o, c) ==
    [f \in 1..n_folds |-> [train |-> Where(D, FoldTrain(D, FoldGroup(o, c, f))),
                           test |-> Where(D, FoldTest(D, FoldGroup(o, c, f)))]]
KFold ==
    \E n_folds \in 1..NItems, o \in ItemOrders :
        \E c \in FoldCuts(n_folds) :
            /\ last' = Call("kfold_split_train_test", n_folds, "ok",
                            kfold_split_train_test(data, n_folds, o, c))
            /\ UNCHANGED mvars


\* SpecSplit: an object built without a mask, masked again and again, and its data
\* split in folds
InitSplit == InitWith({"Mean"}, {})
NextSplit ==
    \/ \E a \in SizeArgs : split_train_test(a)
    \/ \E a \in SizeArgs : create_train_test_mask(a)
    \/ KFold
SpecSplit == InitSplit /\ [][NextSplit]_vars

(***************************************************************************)
(* downsample (cf.py 374-452): the items are samples in time, averaged in  *)
(* groups of n_samples consecutive ones.  On the NItems samples of this    *)
(* model the call returns for groups of one sample only; a larger group    *)
(* leaves np.arange(1, n_items / n_samples) empty and idx[-1] raises.      *)
(* Every frame the call replaces has its columns labelled by the group     *)
(* numbers 1, 2, ...; a mean fitted before keeps the labels it was fitted  *)
(* with, and predict aligns it to the new columns by label.                *)
(***************************************************************************)
\* cf.py 395-400: the group size, <<>> for a target_type that is not supported; an
\* argument is <<>> for None and <<v>> for the value v
ds_n_samples(sampling_freq, target, target_type) ==
    IF target_type = <<"samples">> THEN target
    ELSE IF target_type = <<"seconds">> THEN <<target[1] * sampling_freq[1]>>
    ELSE None
\* cf.py 407-414: np.arange(1, n_items / n) has ceil(n_items / n) - 1 values, each
\* repeated n times; the samples left get the next value
ds_groups(n) == (NItems + n - 1) \div n
ds_idx(n) ==
    [j \in Items |-> IF j <= n * (ds_groups(n) - 1) THEN ((j - 1) \div n) + 1
                      ELSE ds_groups(n)]
\* cf.py 415: data.groupby(idx).mean(), one mean per group, NaN skipped
ds(M, n) ==
    [s \in Subjects |-> [g \in 1..ds_groups(n) |->
        nanmean(Pick(M[s], [j \in Items |-> ds_idx(n)[j] = g], 1))]]
\* cf.py 425-432, 439-446: the mean of a mask, then `> 0`
ds_mask(B, n) ==
    [s \in Subjects |-> [g \in 1..ds_groups(n) |->
        \E j \in Items : ds_idx(n)[j] = g /\ B[s][j]]]
downsample(sampling_freq, target, target_type) ==
    LET arg == [sampling_freq |-> sampling_freq, target |-> target,
                target_type |-> target_type]
        n == ds_n_samples(sampling_freq, target, target_type)
    IN
    /\ Returned
    /\ IF sampling_freq = None \/ target = None \/ target_type = None \/ n = None
       THEN /\ last' = Call("downsample", arg, "ValueError", None)
            /\ UNCHANGED mvars
       ELSE IF ds_groups(n[1]) - 1 = 0
       THEN /\ last' = Call("downsample", arg, "IndexError", None)
            /\ UNCHANGED mvars
       ELSE /\ data' = ds(data, n[1])
            \* the columns of a frame grouped by idx are labelled by the values of idx
            /\ columns' = [g \in 1..ds_groups(n[1]) |-> [num |-> g]]
            /\ IF is_mask
               THEN /\ train_mask' = ds_mask(train_mask, n[1])
                    /\ masked_data' = ds(masked_data, n[1])
                    /\ dilated_mask' = IF is_mask_dilated THEN ds_mask(dilated_mask, n[1])
                                       ELSE dilated_mask
               ELSE UNCHANGED <<train_mask, masked_data, dilated_mask>>
            /\ predictions' = IF is_predict THEN ds(predictions, n[1]) ELSE predictions
            /\ last' = Call("downsample", arg, "ok", None)
            /\ UNCHANGED <<kind, mean_index, is_mask, n_train_items, is_mask_dilated,
                           is_fit, is_predict, params>>
Downsample ==
    \E sampling_freq \in {None, <<1>>}, target \in {None, <<1>>, <<NItems>>},
       target_type \in {None, <<"samples">>, <<"seconds">>, <<"frames">>} :
        downsample(sampling_freq, target, target_type)

\* SpecDownsample: a Mean model built with or without a mask over a frame whose
\* columns are numbered from 0, numbered from 1 or labelled with text (the j-th of
\* distinct strings is [str |-> j]), fitted, predicted and downsampled in any order
InitDownsample ==
    /\ Constructed({"Mean"}, MasksWith(1))
    /\ columns \in {RangeIndex, [j \in Items |-> [num |-> j]], [j \in Items |-> [str |-> j]]}
    /\ last = Call("init", None, "ok", None)
NextDownsample == (\E dil \in Dilations : FitMean(dil)) \/ Predict \/ Downsample
SpecDownsample == InitDownsample /\ [][NextDownsample]_vars

(***************************************************************************)
(* Spec: an object of any of the four classes, built over any matrix with  *)
(* any mask at all, or none, then fitted without dilation, predicted and   *)
(* evaluated in any order.                                                 *)
(***************************************************************************)
Init == InitWith(Kinds, MaskSet)
Next == FitUndilated \/ Predict \/ Eval
Spec == Init /\ [][Next]_vars

(***************************************************************************)
(* SpecFit: an object of any of the four classes, built over any matrix    *)
(* with any mask at all, or none, and fitted again and again, with and     *)
(* without dilation.                                                       *)
(***************************************************************************)
SpecFit == Init /\ [][Fit]_vars

\* a step that is the call `op`: every call overwrites last
Called(op) == last'.op = op
\* the sum of the values of f over the set S
RECURSIVE SumOver(_, _)
SumOver(S, f) ==
    IF S = {} THEN R(0)
    ELSE LET t == CHOOSE x \in S : TRUE IN Add(f[t], SumOver(S \ {t}, f))
Evaluated == last'.op \in EvalOps

(***************************************************************************)
(* SpecMean: a Mean model built with any mask at all, or none.             *)
(***************************************************************************)
InitMean == InitWith({"Mean"}, MaskSet)
NextMean == (\E dil \in Dilations : FitMean(dil)) \/ Predict \/ Eval
SpecMean == InitMean /\ [][NextMean]_vars

(***************************************************************************)
(* SpecDilate: a Mean model built with any mask, fitted with and without   *)
(* dilation, and _conv_ts_mean_overlap applied to the ratings of the data  *)
(* laid out as one row of NCells samples.                                  *)
(***************************************************************************)
ConvRow ==
    \E n_samples \in 1..NCells :
        /\ last' = Call("_conv_ts_mean_overlap",
                        [sub_rating |-> Flat(data), n_samples |-> n_samples], "ok",
                        _conv_ts_mean_overlap(Flat(data), n_samples))
        /\ UNCHANGED mvars
InitDilate == InitWith({"Mean"}, MaskSet)
NextDilate == (\E dil \in Dilations : FitMean(dil)) \/ ConvRow
SpecDilate == InitDilate /\ [][NextDilate]_vars

(***************************************************************************)
(* SpecKnnCell: one cell of KNN.predict over a similarity matrix of more   *)
(* subjects than the objects above have.  What the cell is computed from   *)
(* is drawn at the start: the subject of the row, its row of the           *)
(* similarity matrix (the diagonal entry is the correlation of the subject *)
(* with itself, 1 or NaN), the column of self.data for the item, and k.    *)
(* PredictCell selects the neighbours and computes the cell as predict     *)
(* does for every cell.                                                    *)
(***************************************************************************)
CellSubjects == 1..4
SimValues == {NaN, R(-1), R(1)}
PredictCell ==
    /\ last.op = "cell"
    /\ \E top \in TopOf(last.arg.sim, last.arg.subject, last.arg.k) :
          last' = Call("predict_cell", last.arg, "ok",
                       [top_subjects |-> top,
                        pred |-> DotOverLen(last.arg.sim, last.arg.ratings, top)])
    /\ UNCHANGED mvars
InitKnnCell ==
    /\ Constructed({"KNN"}, {}) /\ data = Const(R(1)) /\ columns = RangeIndex
    /\ last \in {Call("cell", x, "ok", None) :
                   x \in {y \in [subject : CellSubjects, sim : [CellSubjects -> SimValues],
                                 ratings : [CellSubjects -> RatingValues],
                                 k : {None} \cup {<<n>> : n \in 0..Cardinality(CellSubjects)}] :
                             y.sim[y.subject] \in {NaN, R(1)}}}
NextKnnCell == PredictCell
SpecKnnCell == InitKnnCell /\ [][NextKnnCell]_vars

(***************************************************************************)
(* SpecSgd: an NNMF_sgd model built with any mask at all, or none, fitted  *)
(* with and without dilation for one epoch.                                *)
(***************************************************************************)
InitSgd == InitWith({"NNMF_sgd"}, MaskSet)
NextSgd == \E dil \in Dilations, a \in OneIterationSgd : FitSgd(dil, a)
SpecSgd == InitSgd /\ [][NextSgd]_vars

(***************************************************************************)
(* SpecNNMF: a model of one of the two NNMF classes over a matrix whose    *)
(* rows are alike, built without a mask or with a mask that is True        *)
(* nowhere or everywhere, and fitted again and again with any iteration    *)
(* budget and tolerances.                                                  *)
(***************************************************************************)
AlikeRows == {d \in DataSet : \A s \in Subjects : d[s] = d[1] /\ \A i \in Items : d[s][i] \in {NaN, R(1)}}
InitNNMF ==
    /\ InitWith({"NNMF_mult", "NNMF_sgd"}, MasksWith(0) \cup MasksWith(NItems))
    /\ data \in AlikeRows
NextNNMF ==
    \/ \E dil \in Dilations, a \in MultArgs : FitMult(dil, a)
    \/ \E dil \in Dilations, a \in SgdArgs : FitSgd(dil, a)
SpecNNMF == InitNNMF /\ [][NextNNMF]_vars

(***************************************************************************)
(* Lifecycle                                                               *)
(***************************************************************************)

\* C1: every evaluation method (get_mse, get_corr, get_sub_mse, get_sub_corr, any
\* dataset selector) raises NotFitted while is_fit is false and NotPredicted while
\* is_fit is true and is_predict is false; it raises neither, and can return a value,
\* only when both flags are true; and no evaluation call changes the model's state.
C1_EvalNeedsPredicted ==
    [][Evaluated =>
         /\ UNCHANGED mvars
         /\ ~is_fit => last'.out = "NotFitted"
         /\ (is_fit /\ ~is_predict) => last'.out = "NotPredicted"
         /\ (is_fit /\ is_predict) => last'.out \notin {"NotFitted", "NotPredicted"}
         /\ last'.out = "ok" => (is_fit /\ is_predict /\ predictions # None)]_vars
\* an evaluation was rejected on a model that is fit but not predicted
C1_Witness ==
    /\ last.op \in EvalOps
    /\ last.out = "NotPredicted"
    /\ is_fit /\ ~is_predict

\* C2: for each of the four classes, predict() on a model that was never fit raises
\* NotFitted and leaves the model as it was (is_predict false, predictions None).
C2_PredictUnfitRejected ==
    [][(Called("predict") /\ ~is_fit) =>
         /\ last'.out = "NotFitted"
         /\ ~is_predict' /\ predictions' = None
         /\ UNCHANGED mvars]_vars

\* C3: when fit() returns the model is in the fit, not the predicted, state: is_predict
\* is false, so that evaluation is rejected until predict() runs again.
C3_FitResetsPredicted ==
    [][(Called("fit") /\ last'.out = "ok") => ~is_predict']_vars

\* C7: on a fit and predicted model without a mask (is_mask false) every evaluation
\* method called with 'train' or 'test' raises PrecursorMissing.
C7_NoMaskNoPartition ==
    [][(Evaluated /\ is_fit /\ is_predict /\ ~is_mask /\ last'.arg \in {"train", "test"})
         => last'.out = "PrecursorMissing"]_vars
\* the global MSE of the test partition was asked of a predicted model without a mask
C7_Witness ==
    /\ last.op = "get_mse" /\ last.arg = "test"
    /\ last.out = "PrecursorMissing"
    /\ is_fit /\ is_predict /\ ~is_mask

(***************************************************************************)
(* Masking                                                                 *)
(***************************************************************************)
ValidSize(a) ==
    \/ a.t = "int" /\ 0 <= a.v.n /\ a.v.n <= NItems
    \/ a.t = "float" /\ a.v.n > 0 /\ a.v.n <= a.v.d
\* the count a valid size stands for: k itself, or the integer nearest to f * n, the
\* even one of the two when f * n lies half way
IsCountOf(k, a) ==
    IF a.t = "int" THEN k = a.v.n
    ELSE LET twiceDist == Abs(2 * (k * a.v.d - NItems * a.v.n))
         IN  \/ twiceDist < a.v.d
             \/ twiceDist = a.v.d /\ k % 2 = 0
IsMaskOf(m, a) ==
    /\ m \in MaskSet
    /\ \A s \in Subjects :
         /\ IsCountOf(TrueCount(m[s]), a)
         /\ TrueCount(m[s]) + TrueCount(Not(m)[s]) = NItems
Masked == (Called("split_train_test") \/ Called("create_train_test_mask")) /\ ValidSize(last'.arg)
MaskMade == IF last'.op = "split_train_test" THEN train_mask' ELSE last'.val

\* C4 as claimed: for any rating matrix and any valid training size both
\* split_train_test and create_train_test_mask produce a mask of the data's shape with
\* exactly k True cells in every row.
C4_AnyMatrix ==
    [][Masked => (last'.out = "ok" /\ IsMaskOf(MaskMade, last'.arg))]_vars
\* C4 amended: split_train_test does so for any rating matrix; create_train_test_mask
\* does so for a rating matrix without missing cells, and raises, returning no mask,
\* when the data holds a missing cell.
C4_ExactCountPerRow ==
    [][Masked =>
         IF last'.op = "create_train_test_mask" /\ HasNaN(data)
         THEN last'.out = "NaNData" /\ last'.val = None
         ELSE last'.out = "ok" /\ IsMaskOf(MaskMade, last'.arg)]_vars
\* split_train_test(0.75) on two items: 1.5 rounds to 2 training items in every row
C4_Witness ==
    /\ last.op = "split_train_test" /\ last.out = "ok"
    /\ last.arg = [t |-> "float", v |-> Rat(3, 4)]
    /\ is_mask
    /\ \A s \in Subjects : TrueCount(train_mask[s]) = 2

InvalidSize(a) ==
    \/ a.t = "float" /\ ~(a.v.n > 0 /\ a.v.n <= a.v.d)
    \/ a.t = "int" /\ a.v.n > NItems
    \/ a.t \notin {"float", "int"}
\* C5: split_train_test with a fraction outside (0,1], an integer count above the
\* number of items or a value that is no number fails, and the failed call leaves
\* train_mask, masked_data, is_mask and n_train_items as they were.
C5_FailedSplitKeepsMask ==
    [][(Called("split_train_test") /\ InvalidSize(last'.arg)) =>
         /\ last'.out # "ok"
         /\ UNCHANGED <<train_mask, masked_data, is_mask, n_train_items>>]_vars

\* C6: whenever is_mask is true, every cell where train_mask is True holds a
\* non-missing rating of data.
C6_MaskOnObservedOnly ==
    is_mask => \A s \in Subjects, i \in Items : train_mask[s][i] => ~isnan(data[s][i])

(***************************************************************************)
(* Evaluation partitions                                                   *)
(***************************************************************************)
HasTrainRating == \E s \in Subjects, i \in Items : train_mask[s][i] /\ ~isnan(data[s][i])
HasTestRating == \E s \in Subjects, i \in Items : ~train_mask[s][i] /\ ~isnan(data[s][i])
Scored(ops, dataset) ==
    /\ Evaluated /\ last'.op \in ops /\ last'.arg = dataset
    /\ is_fit /\ is_predict /\ is_mask
\* the MSE and the correlation of the predictions against frame `src` over `cells`
MseOver(src, cells) ==
    nanmean(SqErr(BoolIndex(predictions, cells), BoolIndex(src, cells)))
CorrOver(src, cells) ==
    LET a == BoolIndex(src, cells)
        p == BoolIndex(predictions, cells)
        ok == BothValid(a, p)
    IN  pearsonr(Pick(a, ok, 1), Pick(p, ok, 1))
Between(v, a, b) ==
    /\ Leq(a, v) \/ Leq(b, v)
    /\ Leq(v, a) \/ Leq(v, b)

\* C8: on a fit and predicted masked model get_mse('test') and get_corr('test') raise
\* NoTestData when no cell outside train_mask holds a rating, and return a score when
\* at least one does.
C8_TestScoreOrNoTestData ==
    [][Scored({"get_mse", "get_corr"}, "test") =>
         IF HasTestRating THEN last'.out = "ok" ELSE last'.out = "NoTestData"]_vars

\* C9: on a fit and predicted model whose mask has train and test ratings,
\* get_mse('all') is the MSE over every non-missing cell of data, train and test
\* together, and so lies between get_mse('train') and get_mse('test').
C9_AllBlendsTrainAndTest ==
    [][(Scored({"get_mse"}, "all") /\ HasTrainRating /\ HasTestRating) =>
         /\ last'.out = "ok"
         /\ last'.val = MseOver(data, notnull(data))
         /\ LET tr == get_mse("train").val
                te == get_mse("test").val
            IN  (~isnan(tr) /\ ~isnan(te)) => Between(last'.val, tr, te)]_vars

\* C10: get_mse('train') and get_corr('train') score the cells of dilated_mask, against
\* the dilated training values, once a fit has dilated the mask, and the cells of
\* train_mask otherwise.
ClaimedTrainCells == IF is_mask_dilated THEN dilated_mask ELSE train_mask
C10_TrainFollowsDilation ==
    [][Scored({"get_mse", "get_corr"}, "train") =>
         IF last'.op = "get_mse"
         THEN last'.out = "ok" /\ last'.val = MseOver(masked_data, ClaimedTrainCells)
         ELSE LET c == CorrOver(masked_data, ClaimedTrainCells)
              IN  last'.out = c.out /\ (c.out = "ok" => last'.val = c.val)]_vars

\* per subject: the MSE and the correlation of the predictions against frame `src`
\* over the cells of the subject's row
SubMseOver(src, cells) ==
    [s \in Subjects |->
        nanmean(SqErr(Pick(predictions[s], cells[s], 1), Pick(src[s], cells[s], 1)))]
SubCorrOver(src, cells) ==
    [s \in Subjects |->
        LET a == Pick(src[s], cells[s], 1)
            p == Pick(predictions[s], cells[s], 1)
            ok == BothValid(a, p)
        IN  pearsonr(Pick(a, ok, 1), Pick(p, ok, 1))]

\* C11: the 'test' partition of every evaluation method is the cells where train_mask
\* is False, with the actual values read from the original data, dilated fit or not:
\* whatever a 'test' evaluation returns is the score of the predictions against data
\* over those cells.
C11_TestIsUnmaskedOriginal ==
    [][(Scored(EvalOps, "test") /\ last'.out = "ok") =>
         LET cells == Not(train_mask)
         IN  CASE last'.op = "get_mse" -> last'.val = MseOver(data, cells)
               [] last'.op = "get_corr" -> last'.val = CorrOver(data, cells).val
               [] last'.op = "get_sub_mse" -> last'.val = SubMseOver(data, cells)
               [] last'.op = "get_sub_corr" ->
                    last'.val = [s \in Subjects |-> SubCorrOver(data, cells)[s].val]]_vars
\* a test cell that dilation filled with a value other than its rating was scored
C11_Witness ==
    /\ last.op = "get_mse" /\ last.arg = "test" /\ last.out = "ok"
    /\ is_mask_dilated
    /\ \E s \in Subjects, i \in Items :
         /\ ~train_mask[s][i] /\ dilated_mask[s][i]
         /\ ~isnan(data[s][i]) /\ masked_data[s][i] # data[s][i]

(***************************************************************************)
(* Per-subject scores                                                      *)
(***************************************************************************)
\* the frame and the cells a selector stands for
PartitionOf(dataset) ==
    IF dataset = "all" THEN [src |-> data, m |-> AllTrue]
    ELSE IF dataset = "train"
    THEN [src |-> masked_data, m |-> IF is_mask_dilated THEN dilated_mask ELSE train_mask]
    ELSE [src |-> data, m |-> Not(train_mask)]
\* no cell of the subject's partition has both a rating and a prediction
NoOverlap(dataset, s) ==
    \A i \in Items :
        PartitionOf(dataset).m[s][i] =>
            (isnan(PartitionOf(dataset).src[s][i]) \/ isnan(predictions[s][i]))
SubScored ==
    /\ Evaluated /\ last'.op \in {"get_sub_mse", "get_sub_corr"}
    /\ is_fit /\ is_predict
    /\ is_mask \/ last'.arg = "all"

\* C12: get_sub_mse and get_sub_corr return one value per subject for every dataset
\* selector, and the value of a subject whose partition has no cell that is
\* non-missing in both the actual and the predicted values is NaN; no subject makes
\* the call fail.
C12_OneScorePerSubject ==
    [][SubScored =>
         /\ last'.out = "ok"
         /\ DOMAIN last'.val = Subjects
         /\ \A s \in Subjects :
              NoOverlap(last'.arg, s) =>
                  IF last'.op = "get_sub_mse" THEN isnan(last'.val[s])
                  ELSE last'.val[s] = CorrNaN]_vars

(***************************************************************************)
(* Mean                                                                    *)
(***************************************************************************)
\* the mean of the values of item i that frame `src` holds in `cells`, missing ones
\* skipped
ItemMean(src, cells, i) ==
    LET S == {s \in Subjects : cells[s][i] /\ ~isnan(src[s][i])}
    IN  Div(SumOver(S, [s \in S |-> src[s][i]]), R(Cardinality(S)))

\* C13: Mean.fit stores, per item, the mean of the ratings of the item's training
\* cells, missing ones skipped: of all observed cells on a model without a mask, of the
\* dilated cells when the call dilates; Mean.predict fills every subject's row of
\* predictions, a matrix of the data's shape, with that vector, so that on a dense
\* matrix without a mask every predicted row is the column-wise mean of the data.
C13_MeanOfTrainingRatings ==
    [][/\ (Called("fit") /\ kind = "Mean") =>
            /\ last'.out = "ok"
            /\ mean' = [i \in Items |->
                          IF ~is_mask THEN ItemMean(data, AllTrue, i)
                          ELSE IF last'.arg.dil # 0
                          THEN ItemMean(masked_data', dilated_mask', i)
                          ELSE ItemMean(data, train_mask, i)]
       /\ (Called("predict") /\ kind = "Mean" /\ is_fit) =>
            /\ last'.out = "ok"
            /\ DOMAIN predictions' = Subjects
            /\ \A s \in Subjects : DOMAIN predictions'[s] = Items /\ predictions'[s] = mean
            /\ (~is_mask /\ ~HasNaN(data)) =>
                 \A s \in Subjects, i \in Items :
                     predictions'[s][i] = ItemMean(data, AllTrue, i)]_vars

(***************************************************************************)
(* fit: dilation and the KNN metric                                        *)
(***************************************************************************)
\* C14: for each of the four classes, fit with dilate_ts_n_samples set on a model
\* without a mask fails with PrecursorMissing and marks the model neither fit nor
\* dilated.
C14_DilationNeedsMask ==
    [][(Called("fit") /\ last'.arg.dil # 0 /\ ~is_mask) =>
         /\ last'.out = "PrecursorMissing"
         /\ UNCHANGED <<is_fit, is_mask_dilated>>]_vars

\* C15: KNN.predict fails with NoViableNeighbors, storing no predictions and leaving
\* is_predict as it was, whenever some subject has no neighbour left once itself and
\* every subject of undefined similarity are removed.
C15_NoNeighbourIsAnError ==
    [][(/\ Called("predict") /\ kind = "KNN" /\ is_fit
        /\ \E s \in Subjects : \A t \in Subjects \ {s} : isnan(subject_similarity[s][t])) =>
         /\ last'.out = "NoViableNeighbors"
         /\ UNCHANGED <<predictions, is_predict>>]_vars

Supported == {"pearson", "kendall", "spearman", "correlation", "cosine"}
\* C16: KNN.fit with a metric name outside the supported set fails with
\* InvalidParameter and leaves is_fit, subject_similarity, masked_data, dilated_mask
\* and is_mask_dilated as they were, dilate_ts_n_samples passed or not.
C16_BadMetricChangesNothing ==
    [][(Called("fit") /\ kind = "KNN" /\ last'.arg.metric \notin Supported) =>
         /\ last'.out \in {"InvalidParameter", "PrecursorMissing"}
         /\ UNCHANGED <<is_fit, subject_similarity, masked_data, dilated_mask,
                        is_mask_dilated>>]_vars

(***************************************************************************)
(* The training loops of the NNMF classes                                  *)
(***************************************************************************)
\* C17: NNMF_sgd.fit ends after at most n_iterations epochs, converged or not; when
\* it returns, is_fit is true, converged is true exactly when the last epoch run
\* found delta < tol and stopped the loop, and _n_iter is the number of epochs run,
\* n_iterations = 0 included.
C17_SgdStopsAndReports ==
    [][(Called("fit") /\ kind = "NNMF_sgd") =>
         /\ last'.out # "NoReturn"
         /\ last'.out = "ok" =>
              LET epochs == Len(error_history')
                  delta == AbsR(error_history'[epochs])
              IN  /\ is_fit'
                  /\ epochs <= last'.arg.n_iterations
                  /\ converged' = <<epochs >= 1 /\ Lt(delta, last'.arg.tol)>>
                  /\ _n_iter' = <<epochs>>]_vars

\* C18: NNMF_mult.fit returns, whatever the tolerances, after at most max_iterations
\* iterations of its loop, also once a residual is below its tolerance.
C18_MultStopsAtMaxIterations ==
    [][(Called("fit") /\ kind = "NNMF_mult") =>
         /\ last'.out = "ok"
         /\ Len(error_history') <= last'.arg.max_iterations]_vars

\* C20: NNMF_mult.fit runs no iteration after one that left the fit residual below
\* fit_error_limit or the current residual below error_limit, max_iterations reached
\* or not.
C20_MultStopsEarly ==
    [][(Called("fit") /\ kind = "NNMF_mult") =>
         \A k \in 1..(Len(last'.val.trace) - 1) :
             /\ ~Lt(last'.val.trace[k].fit_residual, last'.arg.fit_error_limit)
             /\ ~Lt(last'.val.trace[k].current_resid, last'.arg.error_limit)]_vars

(***************************************************************************)
(* The k-fold split                                                        *)
(***************************************************************************)
\* train.add(test, fill_value=0): NaN where both frames are NaN, the sum elsewhere
add_fill0(A, B) ==
    [s \in Subjects |-> [i \in Items |->
        IF isnan(A[s][i]) /\ isnan(B[s][i]) THEN NaN
        ELSE Add(IF isnan(A[s][i]) THEN R(0) ELSE A[s][i],
                 IF isnan(B[s][i]) THEN R(0) ELSE B[s][i])]]
\* C19: in the k-fold split of a frame every fold's test cells are the observed cells
\* outside its train cells, train and test of a fold add up to the frame itself, and
\* in every row each observed item is a test cell of exactly one fold.
C19_FoldsPartitionObserved ==
    [][Called("kfold_split_train_test") =>
         LET folds == last'.val
         IN  /\ Len(folds) = last'.arg
             /\ \A f \in 1..Len(folds) :
                   /\ \A s \in Subjects, i \in Items :
                         /\ ~isnan(folds[f].train[s][i]) => ~isnan(data[s][i])
                         /\ ~isnan(folds[f].test[s][i]) <=>
                              (~isnan(data[s][i]) /\ isnan(folds[f].train[s][i]))
                   /\ add_fill0(folds[f].train, folds[f].test) = data
             /\ \A s \in Subjects, i \in Items :
                   Cardinality({f \in 1..Len(folds) : ~isnan(folds[f].test[s][i])})
                       = IF isnan(data[s][i]) THEN 0 ELSE 1]_vars
HasRating(M) == \E s \in Subjects, i \in Items : ~isnan(M[s][i])
\* two folds of a frame with a missing cell, each fold with a test cell and a train cell
C19_Witness ==
    /\ last.op = "kfold_split_train_test" /\ last.out = "ok" /\ last.arg = 2
    /\ HasNaN(data)
    /\ \A f \in 1..2 : HasRating(last.val[f].test) /\ HasRating(last.val[f].train)
(***************************************************************************)
(* Dilation                                                                *)
(***************************************************************************)
\* the mean of the observed x[i] with max(1, j - n + 1) <= i <= j, NaN without one
WindowMean(x, j, n) ==
    LET W == {i \in 1..Len(x) : Max(1, j - n + 1) <= i /\ i <= j /\ ~isnan(x[i])}
    IN  IF W = {} THEN NaN ELSE Div(SumOver(W, x), R(Cardinality(W)))
\* C24: dilating a row x with window n gives a row of the same length whose position
\* j holds the mean of the observed values of x at the positions j-n+1 .. j, none
\* after j, and is missing exactly when none of them is observed; a dilating fit
\* transforms every row of the training frame by itself and sets dilated_mask to the
\* non-missing cells of the result.
C24_ForwardWindowMean ==
    [][/\ Called("_conv_ts_mean_overlap") =>
            LET x == last'.arg.sub_rating
                y == last'.val
            IN  /\ Len(y) = Len(x)
                /\ \A j \in 1..Len(x) : y[j] = WindowMean(x, j, last'.arg.n_samples)
       /\ (Called("fit") /\ is_mask /\ last'.arg.dil # 0) =>
            /\ \A s \in Subjects, j \in Items :
                  masked_data'[s][j] = WindowMean(Where(data, train_mask)[s], j, last'.arg.dil)
            /\ dilated_mask' = notnull(masked_data')]_vars
\* a window of 2 on a row that starts with a rating followed by two missing samples:
\* the rating is carried one position forward and no further
C24_Witness ==
    /\ last.op = "_conv_ts_mean_overlap" /\ last.arg.n_samples = 2
    /\ ~isnan(last.arg.sub_rating[1])
    /\ isnan(last.arg.sub_rating[2]) /\ isnan(last.arg.sub_rating[3])
    /\ last.val[2] = last.arg.sub_rating[1]
    /\ isnan(last.val[3])
\* C28: on a masked model a fit without dilation that follows a dilated fit trains on
\* the undilated data of the train_mask cells, as a fit on a fresh model does, and
\* leaves is_mask_dilated false; a dilated fit that follows a dilated fit with the same
\* window leaves masked_data and dilated_mask as the first one made them.
C28_DilationNotSticky ==
    [][(Called("fit") /\ kind = "Mean" /\ is_mask) =>
         /\ last'.arg.dil = 0 =>
               /\ ~is_mask_dilated'
               /\ Where(masked_data', train_mask) = Where(data, train_mask)
               /\ mean' = ColMeans(Where(data, train_mask))
         /\ (last'.arg.dil # 0 /\ last.op = "fit" /\ last.arg.dil = last'.arg.dil) =>
               /\ masked_data' = masked_data
               /\ dilated_mask' = dilated_mask]_vars
(***************************************************************************)
(* The convergence test and the biases of NNMF_sgd                         *)
(***************************************************************************)
\* C26: the delta NNMF_sgd.fit computes after epoch t >= 2 is the absolute difference
\* of the normalized errors of epochs t and t - 1: the loop stops after epoch t exactly
\* when that difference is below tol, whatever the normalized error itself is.
C26_DeltaBetweenEpochs ==
    [][(Called("fit") /\ kind = "NNMF_sgd" /\ last'.out = "ok") =>
         LET h == error_history'
             Change(t) == AbsR(Sub(h[t], h[t - 1]))
         IN  /\ \A t \in 2..(Len(h) - 1) : ~Lt(Change(t), last'.arg.tol)
             /\ (Len(h) >= 2 /\ Len(h) < last'.arg.n_iterations) =>
                    Lt(Change(Len(h)), last'.arg.tol)
             /\ Len(h) >= 2 => (converged' = <<Lt(Change(Len(h)), last'.arg.tol)>>)]_vars
\* C27: NNMF_sgd.fit starts training with user and item biases of 0 and with
\* global_bias the sum of the ratings of the training cells divided by their number,
\* whatever the mask, also when the items have different numbers of training ratings.
C27_GlobalBiasIsOverallMean ==
    [][(Called("fit") /\ kind = "NNMF_sgd" /\ last'.out = "ok") =>
         LET cells == {c \in Subjects \X Items :
                          SgdCells[c[1]][c[2]] /\ ~isnan(SgdData[c[1]][c[2]])}
         IN  /\ \A s \in Subjects : last'.val.user_bias[s] = R(0)
             /\ \A i \in Items : last'.val.item_bias[i] = R(0)
             /\ global_bias' = Div(SumOver(cells, [c \in cells |-> SgdData[c[1]][c[2]]]),
                                   R(Cardinality(cells)))]_vars
(***************************************************************************)
(* The neighbours of KNN.predict                                           *)
(***************************************************************************)
\* C25: in a cell of KNN.predict(k) the neighbours of subject s are min(k, m) of the m
\* subjects other than s whose similarity to s is defined (all m when k is None), none
\* of them s itself or a subject of NaN similarity, none counted twice, and no
\* subject of defined similarity left out is more similar than one taken; the cell
\* is the sum over the neighbours of similarity times the neighbour's rating in
\* self.data, divided by the number of neighbours.
C25_TopKDefinedNeighbours ==
    [][Called("predict_cell") =>
         LET s == last'.arg.subject
             sim == last'.arg.sim
             ratings == last'.arg.ratings
             k == last'.arg.k
             top == last'.val.top_subjects
             T == {top[j] : j \in 1..Len(top)}
             defined == {t \in CellSubjects : t # s /\ ~isnan(sim[t])}
             m == Cardinality(defined)
         IN  /\ s \notin T
             /\ \A t \in T : ~isnan(sim[t])
             /\ Cardinality(T) = Len(top)
             /\ Cardinality(T) = IF k = None \/ k[1] > m THEN m ELSE k[1]
             /\ \A t \in T, u \in defined \ T : ~Lt(sim[t], sim[u])
             /\ last'.val.pred =
                    Div(SumOver(T, [t \in T |-> Mul(sim[t], ratings[t])]),
                        R(Cardinality(T)))]_vars
\* k = 2 for subject 2, whose similarity to itself is 1 and to the subjects 1, 3 and 4
\* is 1, NaN and -1: the two other subjects of defined similarity are taken, the
\* subject itself and the NaN one are not, and the cell is (1 * 1 - 1 * MaxRating) / 2
C25_Witness ==
    /\ last.op = "predict_cell" /\ last.arg.subject = 2 /\ last.arg.k = <<2>>
    /\ last.arg.sim = <<R(1), R(1), NaN, R(-1)>>
    /\ last.val.top_subjects = <<1, 4>>
    /\ last.arg.ratings[1] = R(1) /\ last.arg.ratings[4] = R(MaxRating)
    /\ last.val.pred = Rat(1 - MaxRating, 2)
(***************************************************************************)
(* The update of NNMF_mult                                                 *)
(***************************************************************************)
\* C21: after every iteration of NNMF_mult.fit every entry of W and of H is a number,
\* never NaN, that is at least the floor eps, whatever the data and the mask.
C21_FactorsStayAboveEps ==
    [][(Called("fit") /\ kind = "NNMF_mult") =>
         \A k \in 1..Len(last'.val.trace) :
             /\ ~isnan(last'.val.trace[k].min_factor)
             /\ Leq(Eps, last'.val.trace[k].min_factor)]_vars

\* C22: a missing rating enters the update of NNMF_mult.fit as the value 0 with the
\* weight 0, with a train mask and without one.
C22_MissingCellsCarryNoWeight ==
    [][(Called("fit") /\ kind = "NNMF_mult") =>
         \A s \in Subjects, i \in Items :
             isnan(data[s][i]) =>
                 /\ last'.val.masked_X[s][i] = R(0)
                 /\ ~last'.val.mask[s][i]]_vars
(***************************************************************************)
(* Held-out cells and fit                                                  *)
(***************************************************************************)
\* what fit learns on an object that differs from this one in its data alone: D takes
\* the place of every read of self.data, the mask, the state of the dilation and the
\* arguments are those of the call.  masked_data holds ratings of train cells only,
\* so an object that agrees on the train cells has the same masked_data.
LearnedFrom(D, dil, metric) ==
    LET md == IF dil # 0 THEN DilatedOf(D, dil) ELSE masked_data
        dm == IF dil # 0 THEN notnull(md) ELSE dilated_mask
        cells == IF is_mask_dilated' THEN dm ELSE train_mask
    IN  CASE kind = "Mean" ->
               ColMeans(Where(md, IF dil # 0 THEN dm ELSE train_mask))
          [] kind = "KNN" ->
               Similarity(metric, IF dil # 0 THEN Where(md, dm) ELSE Where(D, train_mask)).sim
          [] kind = "NNMF_mult" ->
               [avg_sq |-> AvgSq(D),
                masked_X |-> [s \in Subjects |-> [i \in Items |->
                                LET v == IF dil # 0 THEN md[s][i]
                                         ELSE IF train_mask[s][i] THEN D[s][i] ELSE NaN
                                IN  IF isnan(v) THEN R(0) ELSE v]],
                mask |-> IF dil # 0 THEN dm ELSE train_mask]
          [] kind = "NNMF_sgd" ->
               [global_bias |-> nanmean(ColMeans(Where(md, cells))),
                data |-> Where(md, cells)]
\* what the fit that has just run learned
Learned ==
    CASE kind = "Mean" -> mean'
      [] kind = "KNN" -> subject_similarity'
      [] kind = "NNMF_mult" -> [avg_sq |-> last'.val.avg_sq, masked_X |-> last'.val.masked_X,
                                mask |-> last'.val.mask]
      [] kind = "NNMF_sgd" -> [global_bias |-> global_bias', data |-> SgdData]
SameTrainCells(D) ==
    \A s \in Subjects, i \in Items : train_mask[s][i] => D[s][i] = data[s][i]

\* C23: fit never reads a held-out cell: on a masked Mean, KNN, NNMF_mult or NNMF_sgd
\* model, a matrix that agrees with the data on every train cell gives, with the same
\* mask and arguments, the same fitted parameters: item means, similarities, the
\* matrix, the weights and the initial scale of W and H, the ratings and the global
\* bias NNMF_sgd trains on.
C23_FitIgnoresHeldOutCells ==
    [][(Called("fit") /\ is_mask /\ last'.out = "ok") =>
         LET metric == IF kind = "KNN" THEN last'.arg.metric ELSE "pearson"
         IN  /\ Learned = LearnedFrom(data, last'.arg.dil, metric)
             /\ \A D \in DataSet :
                    SameTrainCells(D) => LearnedFrom(D, last'.arg.dil, metric) = Learned]_vars
====
